---- MODULE Spec2Model ----
(***************************************************************************)
(* A model of src/nalibali_chef.py (NalibaliChef): the pagination walker,  *)
(* the story extractor and its language fan-out, the hierarchy-level       *)
(* merge, the audio feed resolver and the crawl/scrape pipeline.           *)
(*                                                                         *)
(* Text is modelled as a sequence of one-character strings, so that        *)
(* substring tests, stripping, case folding and regular-expression         *)
(* matches are computed rather than assumed.  A fixed prefix the code      *)
(* prepends (a scheme and host) is kept as one element.                    *)
(***************************************************************************)
EXTENDS Integers, Sequences, FiniteSets, TLC

VARIABLES
    \* ---- pagination walker (_crawl_pagination, _crawl_story_hierarchy) ----
    control,        \* the <ul class="pagination"> of the listing's first page
    rest,           \* the pagination control every other listing page serves
    ppc,            \* position of the walker
    ret,            \* what _crawl_pagination returned (or raised)
    fetched,        \* the URLs _crawl_pagination fetched, in order
    paginations,    \* the caller's list after paginations.insert(0, ...)
    crawled,        \* the URLs _crawl_pagination_stories fetched, in order
    \* ---- hierarchy-level merge (_crawl_story_hierarchy, lines 290-306) ----
    all_stories_by_bucket,  \* one list of stories per pagination page
    stories_by_language,    \* language -> (uniques, stories), then -> stories
    mb,             \* index of the bucket the outer loop is at
    ms,             \* index of the story the middle loop is at
    mpc,            \* position of the merge
    \* ---- story extractor (_to_story, _crawl_pagination_stories) ----
    div,            \* the views-row of one story
    known,          \* the names the language lookup knows (name or native name)
    language_and_hrefs,     \* _to_story's list of (language, href)
    to_story,       \* what _to_story returned
    page_stories,   \* _crawl_pagination_stories' list (its `stories`)
    spc,            \* position of the extractor
    \* ---- audio feed resolver (_crawl_audio_stories_hierarchy) ----
    audio_anchors,  \* the audio-story anchors of the category page
    feeds,          \* href of a language page -> the items of its RSS feed
    mp3_exists,     \* the URLs a HEAD request answers with status 200
    language_info,  \* the (language, url) pairs of line 240
    a_lang,         \* index of the language the outer loop is at
    a_item,         \* index of the feed item the inner loop is at
    a_stories,      \* the `stories` list of the language being resolved
    a_stories_by_language,  \* the resolver's stories_by_language
    audio_ret,      \* what the resolver returned
    apc,            \* position of the resolver
    \* ---- the run (pre_run, crawl, scrape) ----
    root_titles,    \* the titles of the hierarchies of the root page
    story_hierarchies,      \* crawl's list of hierarchies
    stories_dict,   \* url -> children, from _crawl_story_hierarchy
    h_idx,          \* index of the hierarchy being crawled
    snapshot,       \* the file web_resource_tree.json
    snapshot_writes,        \* how often the snapshot was written
    snapshot_reads, \* how often the snapshot was read
    web_resource_tree,      \* scrape's tree, read from the snapshot
    children,       \* scrape's list of topics
    s_idx,          \* index of the children[...] assignment scrape is at
    output,         \* the file ricecooker_json_tree.json
    output_writes,  \* how often the output tree was written
    error,          \* the exception that ended the run
    stage,          \* the stage pre_run is in
    rpc             \* position of the run

pvars == <<control, rest, ppc, ret, fetched, paginations, crawled>>

mvars == <<all_stories_by_bucket, stories_by_language, mb, ms, mpc>>

svars == <<div, known, language_and_hrefs, to_story, page_stories, spc>>

avars == <<audio_anchors, feeds, mp3_exists, language_info, a_lang, a_item,
           a_stories, a_stories_by_language, audio_ret, apc>>

rvars == <<root_titles, story_hierarchies, stories_dict, h_idx, snapshot,
           snapshot_writes, snapshot_reads, web_resource_tree, children, s_idx,
           output, output_writes, error, stage, rpc>>

vars == <<pvars, mvars, svars, avars, rvars>>

\* what the steps of one component leave alone
notP == <<mvars, svars, avars, rvars>>

notM == <<pvars, svars, avars, rvars>>

notS == <<pvars, mvars, avars, rvars>>

notA == <<pvars, mvars, svars, rvars>>

notR == <<pvars, mvars, svars, avars>>

(***************************************************************************)
(* Bounds of the model.                                                    *)
(***************************************************************************)
MaxAnchors == 4     \* anchors in one pagination control
MaxPage == 3        \* highest page index a page link names
MaxDepth == 3       \* nested _crawl_pagination calls before Python gives up
MaxStories == 3     \* stories on the pages of one hierarchy
MaxLinks == 2       \* language links of one story
MaxItems == 3       \* items of the audio feeds

(***************************************************************************)
(* Text helpers.                                                           *)
(***************************************************************************)
Digits == <<"0", "1", "2", "3", "4", "5", "6", "7", "8", "9">>

IsDigit(c) == \E i \in 1..10 : Digits[i] = c

DigitVal(c) == (CHOOSE i \in 1..10 : Digits[i] = c) - 1

RECURSIVE ToInt(_)
\* int() of a string of decimal digits
ToInt(s) ==
    IF s = <<>> THEN 0
    ELSE 10 * ToInt(SubSeq(s, 1, Len(s) - 1)) + DigitVal(s[Len(s)])

\* Python's `pat in s` for strings
Contains(s, pat) ==
    \E i \in 0..(Len(s) - Len(pat)) : SubSeq(s, i + 1, i + Len(pat)) = pat

StartsWith(s, pat) ==
    Len(s) >= Len(pat) /\ SubSeq(s, 1, Len(pat)) = pat

EndsWith(s, pat) ==
    Len(s) >= Len(pat) /\ SubSeq(s, Len(s) - Len(pat) + 1, Len(s)) = pat

IsSpace(c) == c \in {" ", "\t", "\n", "\r"}

RECURSIVE LStrip(_)
LStrip(s) == IF s # <<>> /\ IsSpace(s[1]) THEN LStrip(Tail(s)) ELSE s

RECURSIVE RStrip(_)
RStrip(s) ==
    IF s # <<>> /\ IsSpace(s[Len(s)]) THEN RStrip(SubSeq(s, 1, Len(s) - 1)) ELSE s

\* str.strip()
Strip(s) == LStrip(RStrip(s))

RECURSIVE DropCRMapNL(_)
\* .replace('\r', '').replace('\n', ' ')
DropCRMapNL(s) ==
    IF s = <<>> THEN <<>>
    ELSE IF s[1] = "\r" THEN DropCRMapNL(Tail(s))
    ELSE IF s[1] = "\n" THEN <<" ">> \o DropCRMapNL(Tail(s))
    ELSE <<s[1]>> \o DropCRMapNL(Tail(s))

Uppers ==
    <<"A", "B", "C", "D", "E", "F", "G", "H", "I", "J", "K", "L", "M",
      "N", "O", "P", "Q", "R", "S", "T", "U", "V", "W", "X", "Y", "Z">>

Lowers ==
    <<"a", "b", "c", "d", "e", "f", "g", "h", "i", "j", "k", "l", "m",
      "n", "o", "p", "q", "r", "s", "t", "u", "v", "w", "x", "y", "z">>

LowerChar(c) ==
    IF \E i \in 1..26 : Uppers[i] = c
    THEN Lowers[CHOOSE i \in 1..26 : Uppers[i] = c]
    ELSE c

\* str.lower()
Lower(s) == [i \in 1..Len(s) |-> LowerChar(s[i])]

\* str.split('?')[0]: the text before the first "?"
BeforeQuery(s) ==
    IF \E i \in 1..Len(s) : s[i] = "?"
    THEN SubSeq(s, 1, (CHOOSE i \in 1..Len(s) :
                         s[i] = "?" /\ \A j \in 1..(i - 1) : s[j] # "?") - 1)
    ELSE s

None == [kind |-> "None"]

\* An element looked up in a page: absent (find returned None) or present
\* with its text
NoElem == [present |-> FALSE, text |-> <<>>]

Elem(t) == [present |-> TRUE, text |-> t]

\* __get_text: "" for a missing element, else the text with line breaks
\* folded and the ends stripped
GetText(elem) == IF ~elem.present THEN <<>> ELSE Strip(DropCRMapNL(elem.text))

HOSTNAME == <<"nalibali.org">>

\* __absolute_url
AbsoluteUrl(url) ==
    IF StartsWith(url, <<"/", "/">>) THEN <<"https:">> \o url
    ELSE IF StartsWith(url, <<"/">>) THEN <<"http://">> \o HOSTNAME \o url
    ELSE url

(***************************************************************************)
(* Pagination walker.                                                      *)
(***************************************************************************)
PageEq == <<"p", "a", "g", "e", "=">>

\* STORY_PAGE_LINK_RE = ^.+page=(?P<page>\d+)$ : the places where "page="
\* starts with at least one character before it and only digits (at least
\* one) after it up to the end
PageLinkSplits(href) ==
    {i \in 2..(Len(href) - Len(PageEq)) :
        /\ SubSeq(href, i, i + Len(PageEq) - 1) = PageEq
        /\ \A j \in (i + Len(PageEq))..Len(href) : IsDigit(href[j])}

STORY_PAGE_LINK_RE_matches(href) == PageLinkSplits(href) # {}

\* the group "page" of the match
PageGroup(href) ==
    LET i == CHOOSE k \in PageLinkSplits(href) : TRUE
    IN  SubSeq(href, i + Len(PageEq), Len(href))

Raise(msg) == [kind |-> "raise", exc |-> msg]

\* _to_pagination
ToPagination(anchor) ==
    IF ~STORY_PAGE_LINK_RE_matches(anchor.href)
    THEN Raise("STORY_PAGE_LINK_RE could not match")
    ELSE [kind |-> "NalibaliPagination",
          url  |-> AbsoluteUrl(anchor.href),
          page |-> PageGroup(anchor.href),
          name |-> GetText(anchor.text)]

FindAllAnchorsUnfiltered(ul) == ul.anchors

\* pagination_ul.find_all('a', attrs={'href': STORY_PAGE_LINK_RE})
FindAllAnchors(ul) ==
    SelectSeq(ul.anchors, LAMBDA a : STORY_PAGE_LINK_RE_matches(a.href))

IsActualNoFirst(p) ==
    /\ ~Contains(p.name, <<"n", "e", "x", "t">>)
    /\ ~Contains(p.name, <<"l", "a", "s", "t">>)
    /\ ~Contains(p.name, <<"p", "r", "e", "v", "i", "o", "u", "s">>)
    /\ ~Contains(p.name, <<">">>)
    /\ p.name # <<>>

\* the condition of the actual_paginations comprehension
IsActual(p) ==
    /\ ~Contains(p.name, <<"n", "e", "x", "t">>)
    /\ ~Contains(p.name, <<"l", "a", "s", "t">>)
    /\ ~Contains(p.name, <<"f", "i", "r", "s", "t">>)
    /\ ~Contains(p.name, <<"p", "r", "e", "v", "i", "o", "u", "s">>)
    /\ ~Contains(p.name, <<">">>)
    /\ p.name # <<>>

\* a variant of the dict of line 159 that also files a descriptor whose name
\* holds 'last' under the key 'last'; the code keys by page number only
PaginationsDictWithLast(ps) ==
    LET lasts == {i \in 1..Len(ps) : Contains(ps[i].name, <<"l", "a", "s", "t">>)}
        keys == {ps[i].page : i \in 1..Len(ps)}
                    \cup (IF lasts = {} THEN {} ELSE {<<"l", "a", "s", "t">>})
    IN  [k \in keys |->
            IF k = <<"l", "a", "s", "t">>
            THEN ps[CHOOSE i \in lasts : \A j \in lasts : j <= i]
            ELSE ps[CHOOSE i \in 1..Len(ps) :
                       /\ ps[i].page = k
                       /\ \A j \in (i + 1)..Len(ps) : ps[j].page # k]]

\* {p['page']: p for p in paginations}: a later entry replaces an earlier one
PaginationsDict(ps) ==
    [k \in {ps[i].page : i \in 1..Len(ps)} |->
        ps[CHOOSE i \in 1..Len(ps) :
              /\ ps[i].page = k
              /\ \A j \in (i + 1)..Len(ps) : ps[j].page # k]]

\* dict.get(key): None when the key is absent
DictGet(d, key) == IF key \in DOMAIN d THEN d[key] ELSE None

\* page.find('ul', class_='pagination'): absent, or its anchors in order
NoControl == [present |-> FALSE, anchors |-> <<>>]

Control(as) == [present |-> TRUE, anchors |-> as]

STORIES_URL == <<"http://">> \o HOSTNAME \o <<"/", "s">>

\* self._html.get(url).find('ul', class_='pagination'): the first page
\* serves `control`, every other URL serves `rest`
GetPaginationUl(url, first, other) == IF url = STORIES_URL THEN first ELSE other

ListVal(s) == [kind |-> "list", val |-> s]

RECURSIVE CrawlPagination(_, _, _, _)
\* _crawl_pagination: [ret |-> the value returned or the exception raised,
\*                     fetched |-> the URLs fetched]
CrawlPagination(url, first, other, depth) ==
    IF depth > MaxDepth
    THEN [ret |-> Raise("RecursionError"), fetched |-> <<>>]
    ELSE
    LET pagination_ul == GetPaginationUl(url, first, other)
    IN
    IF ~pagination_ul.present
    THEN [ret |-> ListVal(<<>>), fetched |-> <<url>>]
    ELSE
    LET anchors == FindAllAnchors(pagination_ul)
        mapped == [i \in 1..Len(anchors) |-> ToPagination(anchors[i])]
        paginations_dict == PaginationsDict(mapped)
        actual_paginations == SelectSeq(mapped, IsActual)
        last == DictGet(paginations_dict, <<"l", "a", "s", "t">>)
    IN
    IF \E i \in 1..Len(mapped) : mapped[i].kind = "raise"
    THEN [ret |-> mapped[CHOOSE i \in 1..Len(mapped) :
                            /\ mapped[i].kind = "raise"
                            /\ \A j \in 1..(i - 1) : mapped[j].kind # "raise"],
          fetched |-> <<url>>]
    ELSE IF last.kind = "None"
    THEN [ret |-> ListVal(actual_paginations), fetched |-> <<url>>]
    ELSE IF actual_paginations = <<>>
    THEN [ret |-> Raise("IndexError"), fetched |-> <<url>>]
    ELSE
    LET current_last == actual_paginations[Len(actual_paginations)]
    IN
    IF current_last.page = last.page
    THEN [ret |-> ListVal(actual_paginations), fetched |-> <<url>>]
    ELSE
    LET inner == CrawlPagination(current_last.url, first, other, depth + 1)
    IN  [ret |-> IF inner.ret.kind = "raise" THEN inner.ret
                 ELSE IF inner.ret.kind = "None" THEN Raise("TypeError")
                 ELSE None,     \* list.extend returns None
         fetched |-> <<url>> \o inner.fetched]

(***************************************************************************)
(* The listing pages the walker is run on.  An anchor is its href, its     *)
(* text, and `genuine`: whether the site rendered it as a page-number link *)
(* (the code never reads `genuine`; it is what the claims compare with).   *)
(***************************************************************************)
LISTING_PATH == <<"/", "s">>

PageHref(k) == LISTING_PATH \o <<"?">> \o PageEq \o <<Digits[k + 1]>>

Anchor(h, t, g) == [href |-> h, text |-> Elem(t), genuine |-> g]

\* the link to page index k, labelled k + 1 as the pager shows it
GenuineAnchor(k) == Anchor(PageHref(k), <<Digits[k + 2]>>, TRUE)

NextAnchor == Anchor(PageHref(1), <<"n", "e", "x", "t", " ", ">">>, FALSE)

LastAnchor == Anchor(PageHref(MaxPage), <<"l", "a", "s", "t", " ", ">", ">">>, FALSE)

PreviousAnchor ==
    Anchor(PageHref(0), <<"<", " ", "p", "r", "e", "v", "i", "o", "u", "s">>, FALSE)

FirstAnchor == Anchor(PageHref(0), <<"\n", "<", "<", " ", "f", "i", "r", "s", "t", " ">>, FALSE)

\* a link of the control whose href carries no page number
UnmatchedAnchor == Anchor(LISTING_PATH \o <<"?">> \o PageEq, <<"2">>, TRUE)

AnchorPool ==
    {GenuineAnchor(k) : k \in 1..MaxPage}
        \cup {NextAnchor, LastAnchor, PreviousAnchor, FirstAnchor, UnmatchedAnchor}

\* a listing page that shows the link of every page and the "last" link
FullControl ==
    [present |-> TRUE,
     anchors |-> [k \in 1..MaxPage |-> GenuineAnchor(k)] \o <<LastAnchor>>]

SeqsUpTo(S, n) == UNION {[1..m -> S] : m \in 0..n}

Controls == {NoControl} \cup {Control(as) : as \in SeqsUpTo(AnchorPool, MaxAnchors)}

(***************************************************************************)
(* The walker and its caller, _crawl_story_hierarchy.                      *)
(***************************************************************************)
PIdle ==
    /\ control = NoControl
    /\ rest = NoControl
    /\ ppc = "idle"
    /\ ret = None
    /\ fetched = <<>>
    /\ paginations = <<>>
    /\ crawled = <<>>

MIdle ==
    /\ all_stories_by_bucket = <<>>
    /\ stories_by_language = <<>>
    /\ mb = 0
    /\ ms = 0
    /\ mpc = "idle"

SIdle ==
    /\ div = None
    /\ known = {}
    /\ language_and_hrefs = <<>>
    /\ to_story = None
    /\ page_stories = <<>>
    /\ spc = "idle"

AIdle ==
    /\ audio_anchors = <<>>
    /\ feeds = <<>>
    /\ mp3_exists = {}
    /\ language_info = <<>>
    /\ a_lang = 0
    /\ a_item = 0
    /\ a_stories = <<>>
    /\ a_stories_by_language = <<>>
    /\ audio_ret = None
    /\ apc = "idle"

RIdle ==
    /\ root_titles = <<>>
    /\ story_hierarchies = <<>>
    /\ stories_dict = <<>>
    /\ h_idx = 0
    /\ snapshot = None
    /\ snapshot_writes = 0
    /\ snapshot_reads = 0
    /\ web_resource_tree = None
    /\ children = <<>>
    /\ s_idx = 0
    /\ output = None
    /\ output_writes = 0
    /\ error = None
    /\ stage = "idle"
    /\ rpc = "idle"

PInit ==
    /\ MIdle
    /\ SIdle
    /\ AIdle
    /\ RIdle
    /\ control \in Controls
    /\ rest \in {NoControl, control, FullControl}
    /\ ppc = "start"
    /\ ret = None
    /\ fetched = <<>>
    /\ paginations = <<>>
    /\ crawled = <<>>

\* paginations = self._crawl_pagination(stories_url)
CallCrawlPagination ==
    /\ ppc = "start"
    /\ LET r == CrawlPagination(STORIES_URL, control, rest, 1)
       IN  /\ ret' = r.ret
           /\ fetched' = r.fetched
           /\ ppc' = IF r.ret.kind = "raise" THEN "raised" ELSE "returned"
    /\ UNCHANGED <<control, rest, paginations, crawled, notP>>

FirstPagination ==
    [kind |-> "NalibaliPagination", url |-> STORIES_URL, page |-> <<"0">>,
     name |-> <<"1">>]

\* a variant of line 284 that appends the page-0 descriptor instead of
\* inserting it at the front; the code does not do this
InsertFirstAtEnd ==
    /\ ppc = "returned"
    /\ IF ret.kind = "list"
       THEN /\ paginations' = ret.val \o <<FirstPagination>>
            /\ ppc' = "inserted"
       ELSE /\ paginations' = paginations
            /\ ppc' = "raised"
    /\ UNCHANGED <<control, rest, ret, fetched, crawled, notP>>

\* paginations.insert(0, dict(kind='NalibaliPagination', url=stories_url,
\* page=0, name='1')); the integer 0 is kept as the digit string "0"
InsertFirst ==
    /\ ppc = "returned"
    /\ IF ret.kind = "list"
       THEN /\ paginations' = <<FirstPagination>> \o ret.val
            /\ ppc' = "inserted"
       ELSE /\ paginations' = paginations
            /\ ppc' = "raised"      \* None has no insert
    /\ UNCHANGED <<control, rest, ret, fetched, crawled, notP>>

\* line 290, list(map(self._crawl_pagination_stories, paginations)): every
\* descriptor of the list is fetched (line 229), in the order of the list
CrawlPaginationStories ==
    /\ ppc = "inserted"
    /\ crawled' = [i \in 1..Len(paginations) |-> paginations[i].url]
    /\ ppc' = "crawled"
    /\ UNCHANGED <<control, rest, ret, fetched, paginations, notP>>

PNext == CallCrawlPagination \/ InsertFirst \/ CrawlPaginationStories

SpecPagination == PInit /\ [][PNext]_vars

(***************************************************************************)
(* Claims about the pagination walker.                                     *)
(***************************************************************************)
\* the page-number links of the first page's control, as the site rendered
\* them, and the page index each one names
GenuineLinks == SelectSeq(control.anchors, LAMBDA a : a.genuine)

PageOfGenuine(a) == CHOOSE k \in 1..MaxPage : a = GenuineAnchor(k)

\* the control holds page-number links in increasing page order (each page
\* once) and navigation links, nothing else
WellFormedControl ==
    /\ control.present
    /\ \A i \in 1..Len(control.anchors) : control.anchors[i] # UnmatchedAnchor
    /\ \A i, j \in 1..Len(GenuineLinks) :
          i < j => PageOfGenuine(GenuineLinks[i]) < PageOfGenuine(GenuineLinks[j])

WalkerReturned == ppc \in {"returned", "inserted", "crawled", "raised"}

\* C1: for a control carrying the page-number links of N pages, interleaved
\* with next/previous/first/last links in any order and any number, the
\* walker returns exactly the N descriptors of the page-number links, in
\* strictly increasing page index, whatever the navigation links are.
C1_ExactlyGenuinePages ==
    (WalkerReturned /\ WellFormedControl) =>
        /\ ret.kind = "list"
        /\ Len(ret.val) = Len(GenuineLinks)
        /\ \A i \in 1..Len(ret.val) :
              /\ ToInt(ret.val[i].page) = PageOfGenuine(GenuineLinks[i])
              /\ ret.val[i].url = AbsoluteUrl(GenuineLinks[i].href)
        /\ \A i, j \in 1..Len(ret.val) :
              i < j => ToInt(ret.val[i].page) < ToInt(ret.val[j].page)

\* two page-number links with a repeated navigation link before and between
C1_Witness ==
    /\ WalkerReturned
    /\ WellFormedControl
    /\ Len(GenuineLinks) >= 2
    /\ Len(ret.val) = 2
    /\ \E i, j \in 1..Len(control.anchors) :
          /\ i < j
          /\ control.anchors[i] = control.anchors[j]
          /\ ~control.anchors[i].genuine
          /\ \E k \in (i + 1)..(j - 1) : control.anchors[k].genuine

\* the control declares a last page: it holds the "last" link
DeclaresLast ==
    \E i \in 1..Len(control.anchors) : control.anchors[i] = LastAnchor

DeclaredLastIndex == ToInt(PageGroup(LastAnchor.href))

\* C2: when the first page's control declares a last page and shows at
\* least one page-number link, and the later pages show the links up to
\* the last page, the last descriptor the walker returns is the declared
\* last page.
C2_ReachesDeclaredLast ==
    (/\ WalkerReturned
     /\ WellFormedControl
     /\ DeclaresLast
     /\ GenuineLinks # <<>>
     /\ rest = FullControl) =>
        /\ ret.kind = "list"
        /\ ret.val # <<>>
        /\ ToInt(ret.val[Len(ret.val)].page) = DeclaredLastIndex

HasUnmatched ==
    /\ control.present
    /\ \E i \in 1..Len(control.anchors) : control.anchors[i] = UnmatchedAnchor

SitePages ==
    {0} \cup {k \in 1..MaxPage :
                \E c \in {control, rest} :
                   \E i \in 1..Len(c.anchors) : c.anchors[i] = GenuineAnchor(k)}

TruePageCount == Cardinality(SitePages)

\* C11: on every finite site, also when the pagination links form a cycle
\* or the last page-number link of a page points back to the same or an
\* earlier page, the walker terminates (the recursion does not run away),
\* fetches no listing page twice, and fetches at most as many listing pages
\* as the listing has.
C11_TerminatesWithinPageCount ==
    /\ ppc # "start" => WalkerReturned
    /\ WalkerReturned =>
          /\ ret # Raise("RecursionError")
          /\ Len(fetched) >= 1
          /\ Len(fetched) <= TruePageCount
          /\ \A i, j \in 1..Len(fetched) : i # j => fetched[i] # fetched[j]

\* every page serves the same control, whose last page-number link names a
\* page before the declared last page: following it would never end
C11_Witness ==
    /\ WalkerReturned
    /\ WellFormedControl
    /\ DeclaresLast
    /\ GenuineLinks # <<>>
    /\ PageOfGenuine(GenuineLinks[Len(GenuineLinks)]) < DeclaredLastIndex
    /\ rest = control
    /\ ret.kind = "list"
    /\ fetched = <<STORIES_URL>>

\* how often x occurs in the sequence q
CountIn(q, x) == Cardinality({i \in 1..Len(q) : q[i] = x})

\* C12: whatever the listing page holds (no pagination control, a control
\* of navigation links only, page-number links with or without a declared
\* 'last' link), the walker returns a list, never None and never an index
\* error; the caller then crawls the page-0 descriptor of the listing URL
\* first and exactly once, followed by the returned descriptors in their
\* returned order; with no pagination control the first page is the only
\* page crawled.
C12_ListThenFirstPageFirst ==
    /\ ppc # "raised"
    /\ WalkerReturned => ret.kind = "list"
    /\ ppc \in {"inserted", "crawled"}
       => /\ paginations[1] = FirstPagination
          /\ Tail(paginations) = ret.val
          /\ CountIn(paginations, FirstPagination) = 1
    /\ ppc = "crawled"
       => /\ Len(crawled) = Len(ret.val) + 1
          /\ crawled[1] = STORIES_URL
          /\ CountIn(crawled, STORIES_URL) = 1
          /\ \A i \in 1..Len(ret.val) : crawled[i + 1] = ret.val[i].url
          /\ ~control.present => crawled = <<STORIES_URL>>

\* a control with two page-number links and a declared last page beyond
\* them: the first page and the two linked pages were crawled, in order
C12_Witness ==
    /\ ppc = "crawled"
    /\ WellFormedControl
    /\ DeclaresLast
    /\ Len(GenuineLinks) = 2
    /\ PageOfGenuine(GenuineLinks[2]) < DeclaredLastIndex
    /\ Len(crawled) = 3
    /\ crawled[2] = AbsoluteUrl(GenuineLinks[1].href)
    /\ crawled[3] = AbsoluteUrl(GenuineLinks[2].href)

(***************************************************************************)
(* Hierarchy-level merge: the loops of _crawl_story_hierarchy over the     *)
(* stories of every pagination page.  A story is kept with `row`, its      *)
(* place in the pages, standing for the identity of the Python object.     *)
(***************************************************************************)
Langs == {"English", "isiZulu"}

StoryUrls == {"/a", "/b"}

\* the supported_languages a story can have: some languages, a URL for each
LanguageLinks == UNION {[D -> StoryUrls] : D \in SUBSET Langs}

LocalizedStory(lang, url, row) ==
    [kind |-> "NalibaliLocalizedStory", language |-> lang, url |-> url, row |-> row]

Story(links, row) ==
    [kind |-> "NalibaliStory",
     supported_languages |->
        [l \in DOMAIN links |-> LocalizedStory(l, links[l], row)]]

MergeOneSharedSeen(sbl, lang, story) ==
    LET fresh == lang \notin DOMAIN sbl
        seen == UNION {sbl[l].uniques : l \in DOMAIN sbl}
        uniques == IF fresh THEN {} ELSE sbl[lang].uniques
        stories == IF fresh THEN <<>> ELSE sbl[lang].stories
    IN  [l \in DOMAIN sbl \cup {lang} |->
            IF l = lang
            THEN [uniques |-> uniques \cup {story.url},
                  stories |-> IF story.url \notin seen
                              THEN Append(stories, story) ELSE stories]
            ELSE sbl[l]]

\* the body of the innermost loop (lines 295-303) for one language of one
\* story: the language's (uniques, stories) pair is created when missing,
\* the story appended unless its URL is in uniques, the URL added
MergeOne(sbl, lang, story) ==
    LET fresh == lang \notin DOMAIN sbl
        uniques == IF fresh THEN {} ELSE sbl[lang].uniques
        stories == IF fresh THEN <<>> ELSE sbl[lang].stories
    IN  [l \in DOMAIN sbl \cup {lang} |->
            IF l = lang
            THEN [uniques |-> uniques \cup {story.url},
                  stories |-> IF story.url \notin uniques
                              THEN Append(stories, story) ELSE stories]
            ELSE sbl[l]]

RECURSIVE MergeStoryLanguages(_, _, _)
\* for lang, story in story['supported_languages'].items(): ...
\* (each language has its own pair, so the order of the items is immaterial)
MergeStoryLanguages(sbl, sl, todo) ==
    IF todo = {} THEN sbl
    ELSE LET lang == CHOOSE l \in todo : TRUE
         IN  MergeStoryLanguages(MergeOne(sbl, lang, sl[lang]), sl, todo \ {lang})

\* the pages' stories: up to MaxStories stories in page order, cut into the
\* first page's bucket and the second page's
Buckets ==
    {<<SubSeq(flat, 1, cut), SubSeq(flat, cut + 1, Len(flat))>> :
        <<flat, cut>> \in
            {fc \in SeqsUpTo(LanguageLinks, MaxStories) \X (0..MaxStories) :
                fc[2] <= Len(fc[1])}}

RowOf(b, j, buckets) == IF b = 1 THEN j ELSE Len(buckets[1]) + j

MInit ==
    /\ PIdle
    /\ SIdle
    /\ AIdle
    /\ RIdle
    /\ \E bs \in Buckets :
          all_stories_by_bucket =
              [b \in 1..2 |-> [j \in 1..Len(bs[b]) |->
                                  Story(bs[b][j], RowOf(b, j, bs))]]
    /\ stories_by_language = <<>>
    /\ mb = 1
    /\ ms = 1
    /\ mpc = "merging"

\* one pass of `for story in stories_bucket`
MergeStory ==
    /\ mpc = "merging"
    /\ mb <= Len(all_stories_by_bucket)
    /\ ms <= Len(all_stories_by_bucket[mb])
    /\ LET story == all_stories_by_bucket[mb][ms]
       IN  stories_by_language' =
               MergeStoryLanguages(stories_by_language,
                                   story.supported_languages,
                                   DOMAIN story.supported_languages)
    /\ ms' = ms + 1
    /\ UNCHANGED <<all_stories_by_bucket, mb, mpc, notM>>

\* `for stories_bucket in all_stories_by_bucket` moves to the next bucket
NextBucket ==
    /\ mpc = "merging"
    /\ mb <= Len(all_stories_by_bucket)
    /\ ms > Len(all_stories_by_bucket[mb])
    /\ mb' = mb + 1
    /\ ms' = 1
    /\ UNCHANGED <<all_stories_by_bucket, stories_by_language, mpc, notM>>

\* lines 304-306: every (uniques, stories) pair is replaced by its stories
FinishMerge ==
    /\ mpc = "merging"
    /\ mb > Len(all_stories_by_bucket)
    /\ stories_by_language' =
           [l \in DOMAIN stories_by_language |-> stories_by_language[l].stories]
    /\ mpc' = "done"
    /\ UNCHANGED <<all_stories_by_bucket, mb, ms, notM>>

MNext == MergeStory \/ NextBucket \/ FinishMerge

SpecMerge == MInit /\ [][MNext]_vars

(***************************************************************************)
(* Claims about the merge.                                                 *)
(***************************************************************************)
\* the stories of all pages in (page order, story order within the page)
AllStories == all_stories_by_bucket[1] \o all_stories_by_bucket[2]

\* the localized stories of one language, in that order
Occurrences(lang) ==
    LET having == SelectSeq(AllStories,
                            LAMBDA st : lang \in DOMAIN st.supported_languages)
    IN  [i \in 1..Len(having) |-> having[i].supported_languages[lang]]

\* the first occurrence of every URL among them
FirstOccurrences(lang) ==
    LET occ == Occurrences(lang)
    IN  SelectSeq(occ, LAMBDA ls :
            \A i \in 1..Len(occ) : occ[i].url = ls.url => occ[i].row >= ls.row)

\* C3: after the merge, each language's list holds every LocalizedStory
\* URL found for that language exactly once, the entries are the first
\* occurrences in (page order, story order), and a URL admitted under one
\* language does not keep it out of another language's list.
C3_PerLanguageDedup ==
    mpc = "done" =>
        /\ DOMAIN stories_by_language =
              {l \in Langs : Occurrences(l) # <<>>}
        /\ \A l \in DOMAIN stories_by_language :
              LET merged == stories_by_language[l]
              IN  /\ merged = FirstOccurrences(l)
                  /\ \A i, j \in 1..Len(merged) :
                        i # j => merged[i].url # merged[j].url
                  /\ {merged[i].url : i \in 1..Len(merged)} =
                        {Occurrences(l)[i].url : i \in 1..Len(Occurrences(l))}

\* a URL met on both pages under one language, kept once there, and kept
\* under the other language as well
C3_Witness ==
    /\ mpc = "done"
    /\ DOMAIN stories_by_language = Langs
    /\ \E l \in Langs, i \in 1..Len(all_stories_by_bucket[1]),
          j \in 1..Len(all_stories_by_bucket[2]) :
          LET s1 == all_stories_by_bucket[1][i].supported_languages
              s2 == all_stories_by_bucket[2][j].supported_languages
          IN  /\ l \in DOMAIN s1
              /\ l \in DOMAIN s2
              /\ s1[l].url = s2[l].url
              /\ Len(stories_by_language[l]) < Len(Occurrences(l))
              /\ \E k \in Langs \ {l} :
                    \E n \in 1..Len(stories_by_language[k]) :
                        stories_by_language[k][n].url = s1[l].url

(***************************************************************************)
(* Story extractor: _to_story and the list _crawl_pagination_stories       *)
(* builds from it.                                                         *)
(***************************************************************************)
AuthorColon == <<"a", "u", "t", "h", "o", "r", ":">>

RECURSIVE RemoveAuthor(_)
\* AUTHOR_RE.subn('', text): every "author:", in any letter case, removed
RemoveAuthor(s) ==
    IF s = <<>> THEN <<>>
    ELSE IF Len(s) >= Len(AuthorColon)
            /\ Lower(SubSeq(s, 1, Len(AuthorColon))) = AuthorColon
    THEN RemoveAuthor(SubSeq(s, Len(AuthorColon) + 1, Len(s)))
    ELSE <<s[1]>> \o RemoveAuthor(Tail(s))

\* __sanitize_author
SanitizeAuthor(text) == IF text = <<>> THEN text ELSE Strip(RemoveAuthor(text))

Sesotho == <<"S", "e", "s", "o", "t", "h", "o">>

NorthNdebele == <<"N", "o", "r", "t", "h", " ", "N", "d", "e", "b", "e", "l", "e">>

Tshivenda == <<"T", "s", "h", "i", "v", "e", "n", "d", "a">>

English == <<"E", "n", "g", "l", "i", "s", "h">>

ProcessLanguageNoLower(language) ==
    IF language = <<"s", "o", "t", "h", "o">> THEN Sesotho
    ELSE IF language = <<"n", "d", "e", "b", "e", "l", "e">> THEN NorthNdebele
    ELSE IF language = <<"t", "s", "i", "v", "e", "n", "d", "a">> THEN Tshivenda
    ELSE language

\* __process_language
ProcessLanguage(language) ==
    LET lang == Lower(language)
    IN  IF lang = <<"s", "o", "t", "h", "o">> THEN Sesotho
        ELSE IF lang = <<"n", "d", "e", "b", "e", "l", "e">> THEN NorthNdebele
        ELSE IF lang = <<"t", "s", "i", "v", "e", "n", "d", "a">> THEN Tshivenda
        ELSE language

\* getlang_by_name(name) or getlang_by_native_name(name), as a truth value
GetLang(name, lookup) == name \in lookup

\* lines 202-205: the language and the href of every link, the language
\* replaced by 'English' when the lookup does not know it
LanguageAndHrefs(anchors, lookup) ==
    [i \in 1..Len(anchors) |->
        LET tentative_lang == ProcessLanguage(GetText(anchors[i].text))
        IN  <<IF GetLang(tentative_lang, lookup) THEN tentative_lang ELSE English,
              anchors[i].href>>]

\* SUPPORTED_THUMBNAIL_EXTENSIONS.search(image_src)
SUPPORTED_THUMBNAIL_EXTENSIONS_search(src) ==
    \/ Contains(src, <<".", "p", "n", "g">>)
    \/ Contains(src, <<".", "j", "p", "g">>)
    \/ Contains(src, <<".", "j", "p", "e", "g">>)

\* lines 207-218: a dict keyed by language; of two links with one language
\* the later one stays
StoryByLanguage(lah, title, posted_date, author, thumbnail) ==
    [language \in {lah[i][1] : i \in 1..Len(lah)} |->
        LET i == CHOOSE k \in 1..Len(lah) :
                    /\ lah[k][1] = language
                    /\ \A j \in (k + 1)..Len(lah) : lah[j][1] # language
        IN  [kind |-> "NalibaliLocalizedStory",
             title |-> title,
             posted_date |-> posted_date,
             author |-> author,
             language |-> language,
             url |-> AbsoluteUrl(lah[i][2]),
             thumbnail |-> thumbnail]]

\* lines 181-192: the title, or none when the row has no usable one
TitleOf(d) ==
    IF d.dc_title.present THEN d.dc_title.text
    ELSE IF ~d.content THEN <<>>
    ELSE GetText(d.h3)

\* _to_story: [story |-> the story or None, lah |-> language_and_hrefs]
ToStory(d, lookup) ==
    LET title == TitleOf(d)
    IN
    IF title = <<>> THEN [story |-> None, lah |-> <<>>]
    ELSE
    LET posted_date == GetText(d.field_date)
        author == SanitizeAuthor(GetText(d.field_author))
        anchors == IF d.links THEN d.anchors ELSE <<>>
        image_src == IF d.img.present THEN d.img.text ELSE <<>>
        thumbnail == IF SUPPORTED_THUMBNAIL_EXTENSIONS_search(image_src)
                     THEN Elem(BeforeQuery(image_src)) ELSE NoElem
        lah == LanguageAndHrefs(anchors, lookup)
    IN  [story |->
            [kind |-> "NalibaliStory",
             title |-> title,
             posted_date |-> posted_date,
             author |-> author,
             supported_languages |->
                 StoryByLanguage(lah, title, posted_date, author, thumbnail)],
         lah |-> lah]

(***************************************************************************)
(* The rows the extractor is run on.  A link's `means` says which label    *)
(* of the rewrite table its text is, up to letter case and surrounding     *)
(* whitespace ("other": none of them); the code never reads it.            *)
(***************************************************************************)
Klingon == <<"K", "l", "i", "n", "g", "o", "n">>

IsiZulu == <<"i", "s", "i", "Z", "u", "l", "u">>

Labels ==
    {[text |-> <<"S", "o", "t", "h", "o">>, means |-> "sotho"],
     [text |-> <<"\n", "S", "O", "T", "H", "O", " ">>, means |-> "sotho"],
     [text |-> <<"n", "d", "e", "b", "e", "l", "e">>, means |-> "ndebele"],
     [text |-> <<"T", "s", "i", "V", "e", "n", "d", "a">>, means |-> "tsivenda"],
     [text |-> Klingon, means |-> "other"],
     [text |-> IsiZulu, means |-> "other"]}

LinkHrefs == {<<"/", "x">>, <<"/", "/", "y">>}

LinkAnchors ==
    {[text |-> Elem(l.text), href |-> h, means |-> l.means] :
        l \in Labels, h \in LinkHrefs}

TitleText == <<"T">>

\* the ways a row carries its title: the dc:title attribute, the fallback
\* heading, a content block without heading, neither
TitleShapes ==
    {[dc_title |-> Elem(TitleText), content |-> TRUE, h3 |-> Elem(<<"X">>)],
     [dc_title |-> NoElem, content |-> TRUE, h3 |-> Elem(<<" ">> \o TitleText \o <<"\n">>)],
     [dc_title |-> NoElem, content |-> TRUE, h3 |-> NoElem],
     [dc_title |-> NoElem, content |-> FALSE, h3 |-> NoElem]}

AuthorTexts == {<<"A", "u", "t", "h", "o", "r", ":", " ", "A">>, <<>>}

Divs ==
    {[dc_title |-> t.dc_title, content |-> t.content, h3 |-> t.h3,
      field_date |-> Elem(<<"1", " ", "M", "a", "y">>),
      field_author |-> Elem(a),
      links |-> TRUE,
      anchors |-> as,
      img |-> Elem(<<"/", "i", ".", "p", "n", "g", "?", "v">>)] :
        t \in TitleShapes, a \in AuthorTexts,
        as \in SeqsUpTo(LinkAnchors, MaxLinks)}
    \cup
    \* a row without its links block
    {[dc_title |-> t.dc_title, content |-> t.content, h3 |-> t.h3,
      field_date |-> Elem(<<"1", " ", "M", "a", "y">>),
      field_author |-> Elem(a),
      links |-> FALSE,
      anchors |-> <<>>,
      img |-> NoElem] :
        t \in TitleShapes, a \in AuthorTexts}

\* the names of the rewrite table that the lookup may or may not know
RewriteTargets == {Sesotho, NorthNdebele, Tshivenda}

Lookups == {{English, IsiZulu} \cup X : X \in SUBSET RewriteTargets}

SInit ==
    /\ PIdle
    /\ MIdle
    /\ AIdle
    /\ RIdle
    /\ div \in Divs
    /\ known \in Lookups
    /\ language_and_hrefs = <<>>
    /\ to_story = None
    /\ page_stories = <<>>
    /\ spc = "start"

\* story = self._to_story(div)
CallToStory ==
    /\ spc = "start"
    /\ LET r == ToStory(div, known)
       IN  /\ to_story' = r.story
           /\ language_and_hrefs' = r.lah
    /\ spc' = "returned"
    /\ UNCHANGED <<div, known, page_stories, notS>>

\* stories.extend([story for story in map(self._to_story, ...) if story])
ExtendStories ==
    /\ spc = "returned"
    /\ page_stories' = IF to_story.kind = "None" THEN page_stories
                       ELSE Append(page_stories, to_story)
    /\ spc' = "done"
    /\ UNCHANGED <<div, known, language_and_hrefs, to_story, notS>>

SNext == CallToStory \/ ExtendStories

SpecStory == SInit /\ [][SNext]_vars

(***************************************************************************)
(* Claims about the story extractor.                                       *)
(***************************************************************************)
StoryReturned == spc \in {"returned", "done"} /\ to_story.kind # "None"

\* what the rewrite table makes of a link's label
AfterRewrite(a) ==
    IF a.means = "sotho" THEN Sesotho
    ELSE IF a.means = "ndebele" THEN NorthNdebele
    ELSE IF a.means = "tsivenda" THEN Tshivenda
    ELSE a.text.text

C10_OneEntryPerLink ==
    (/\ StoryReturned
     /\ \A i, j \in 1..Len(div.anchors) :
           i # j => /\ div.anchors[i].href # div.anchors[j].href
                    /\ div.anchors[i].text # div.anchors[j].text) =>
        /\ Cardinality(DOMAIN to_story.supported_languages) = Len(div.anchors)
        /\ \A l \in DOMAIN to_story.supported_languages :
              /\ to_story.supported_languages[l].title = to_story.title
              /\ to_story.supported_languages[l].author = to_story.author
              /\ to_story.supported_languages[l].posted_date = to_story.posted_date

(***************************************************************************)
(* Audio feed resolver: _crawl_audio_stories_hierarchy.                    *)
(***************************************************************************)
\* the index of the last "/" of s, 0 when it has none
LastSlash(s) ==
    IF \E i \in 1..Len(s) : s[i] = "/"
    THEN CHOOSE i \in 1..Len(s) : s[i] = "/" /\ \A j \in (i + 1)..Len(s) : s[j] # "/"
    ELSE 0

\* os.path.basename
Basename(s) == SubSeq(s, LastSlash(s) + 1, Len(s))

RECURSIVE RStripSlashes(_)
RStripSlashes(s) ==
    IF s # <<>> /\ s[Len(s)] = "/" THEN RStripSlashes(SubSeq(s, 1, Len(s) - 1)) ELSE s

\* os.path.dirname: the head up to the last "/", its trailing slashes
\* dropped unless it is slashes only
Dirname(s) ==
    LET head == SubSeq(s, 1, LastSlash(s))
    IN  IF head # <<>> /\ \E i \in 1..Len(head) : head[i] # "/"
        THEN RStripSlashes(head) ELSE head

\* PurePosixPath(name).stem for a name without "/": the name up to its last
\* ".", unless that "." is its first or its last character
Stem(name) ==
    LET dots == {i \in 1..Len(name) : name[i] = "."}
        i == IF dots = {} THEN 0 ELSE CHOOSE k \in dots : \A j \in dots : j <= k
    IN  IF 1 < i /\ i < Len(name) THEN SubSeq(name, 1, i - 1) ELSE name

\* os.path.join(a, b)
PathJoin(a, b) ==
    IF StartsWith(b, <<"/">>) THEN b
    ELSE IF a = <<>> \/ a[Len(a)] = "/" THEN a \o b
    ELSE a \o <<"/">> \o b

DotMp3 == <<".", "m", "p", "3">>

\* lines 253-257: the enclosure URL without its query string, and the URL
\* of its .mp3 sibling
Mp3Url(enclosure_url) ==
    LET url == BeforeQuery(enclosure_url)
        filename_no_extension == Stem(Basename(url))
    IN  PathJoin(Dirname(url), filename_no_extension) \o DotMp3

\* urlparse(url).path for a URL scheme://host/path without query or
\* fragment: what follows the host
UrlPath(url) ==
    LET starts == {i \in 1..(Len(url) - 2) :
                      url[i] = ":" /\ url[i + 1] = "/" /\ url[i + 2] = "/"}
    IN  IF starts = {} THEN url
        ELSE LET i == CHOOSE k \in starts : \A j \in starts : k <= j
                 after == SubSeq(url, i + 3, Len(url))
             IN  IF \E k \in 1..Len(after) : after[k] = "/"
                 THEN SubSeq(after,
                             CHOOSE k \in 1..Len(after) :
                                 after[k] = "/" /\ \A j \in 1..(k - 1) : after[j] # "/",
                             Len(after))
                 ELSE <<>>

\* self._html.head(mp3_url).status_code
HeadStatus(url, existing) == IF url \in existing THEN 200 ELSE 404

ResolveItemFallBack(item, lang, existing) ==
    LET url == BeforeQuery(item.enclosure_url)
        mp3_url == Mp3Url(item.enclosure_url)
        mp3_version_exists == HeadStatus(mp3_url, existing) = 200
        audio_node_url == IF mp3_version_exists THEN mp3_url ELSE url
    IN  [kind |-> "episode",
         title |-> item.title,
         source_id |-> UrlPath(audio_node_url),
         url |-> audio_node_url,
         language |-> lang]

\* lines 253-274, one feed item: the episode, or the exception raised when
\* the .mp3 sibling does not answer 200
ResolveItem(item, lang, existing) ==
    LET url == BeforeQuery(item.enclosure_url)
        mp3_url == Mp3Url(item.enclosure_url)
        mp3_version_exists == HeadStatus(mp3_url, existing) = 200
        audio_node_url == IF mp3_version_exists THEN mp3_url ELSE url
    IN  IF ~mp3_version_exists
        THEN Raise("No mp3 version available")
        ELSE [kind |-> "episode",
              title |-> item.title,
              source_id |-> UrlPath(audio_node_url),
              url |-> audio_node_url,
              language |-> lang]

AUDIO_STORY_ANCHOR_RE == <<"story-library/audio-stories">>

\* line 240: the anchors without class whose text is longer than 2, each
\* as (language, href)
LanguageInfo(anchors) ==
    LET kept == SelectSeq(anchors, LAMBDA a :
                    /\ Contains(a.href, AUDIO_STORY_ANCHOR_RE)
                    /\ ~a.class
                    /\ Len(GetText(a.text)) > 2)
    IN  [i \in 1..Len(kept) |->
            <<ProcessLanguage(GetText(kept[i].text)), kept[i].href>>]

(***************************************************************************)
(* The audio pages the resolver is run on.  An enclosure is kept with the  *)
(* .mp3 URL and the path the site serves it under, written out by hand.    *)
(***************************************************************************)
FeedHost == <<"h", "t", "t", "p", "s", ":", "/", "/", "f", "m">>

Enclosures ==
    {[url  |-> FeedHost \o <<"/", "d", "/", "e", "1", ".", "w", "a", "v", "?", "x", "=", "1">>,
      mp3  |-> FeedHost \o <<"/", "d", "/", "e", "1", ".", "m", "p", "3">>,
      path |-> <<"/", "d", "/", "e", "1", ".", "m", "p", "3">>],
     [url  |-> FeedHost \o <<"/", "e", "2", ".", "m", "p", "3">>,
      mp3  |-> FeedHost \o <<"/", "e", "2", ".", "m", "p", "3">>,
      path |-> <<"/", "e", "2", ".", "m", "p", "3">>],
     [url  |-> FeedHost \o <<"/", "d", "/", "e", ".", "3", ".", "o", "g", "g">>,
      mp3  |-> FeedHost \o <<"/", "d", "/", "e", ".", "3", ".", "m", "p", "3">>,
      path |-> <<"/", "d", "/", "e", ".", "3", ".", "m", "p", "3">>]}

AudioPath(l) == <<"/", "story-library/audio-stories", "/", l>>

ZuluAnchor == [text |-> Elem(IsiZulu), href |-> AudioPath("z"), class |-> FALSE]

SothoAnchor ==
    [text |-> Elem(<<" ", "S", "o", "t", "h", "o">>), href |-> AudioPath("s"),
     class |-> FALSE]

\* a decorative link: a class, or a text of two characters
ClassedAnchor == [text |-> Elem(IsiZulu), href |-> AudioPath("z"), class |-> TRUE]

ShortAnchor == [text |-> Elem(<<">", ">">>), href |-> AudioPath("s"), class |-> FALSE]

AudioAnchorLists ==
    {<<>>, <<ZuluAnchor>>, <<ClassedAnchor, SothoAnchor>>,
     <<ZuluAnchor, ShortAnchor, SothoAnchor>>, <<SothoAnchor, ZuluAnchor>>,
     <<ZuluAnchor, ZuluAnchor>>}

\* the items of the two language feeds: up to MaxItems items, cut in two
FeedPairs ==
    {<<SubSeq(flat, 1, cut), SubSeq(flat, cut + 1, Len(flat))>> :
        <<flat, cut>> \in
            {fc \in SeqsUpTo(Enclosures, MaxItems) \X (0..MaxItems) :
                fc[2] <= Len(fc[1])}}

FeedItems(encs) ==
    [i \in 1..Len(encs) |-> [enclosure_url |-> encs[i].url, title |-> i]]

AInit ==
    /\ PIdle
    /\ MIdle
    /\ SIdle
    /\ RIdle
    /\ audio_anchors \in AudioAnchorLists
    /\ \E fp \in FeedPairs :
          feeds = (AudioPath("z") :> FeedItems(fp[1])) @@
                  (AudioPath("s") :> FeedItems(fp[2]))
    /\ mp3_exists \in SUBSET {e.mp3 : e \in Enclosures}
    /\ language_info = <<>>
    /\ a_lang = 0
    /\ a_item = 0
    /\ a_stories = <<>>
    /\ a_stories_by_language = <<>>
    /\ audio_ret = None
    /\ apc = "start"

\* lines 237-241
ScanAudioPage ==
    /\ apc = "start"
    /\ language_info' = LanguageInfo(audio_anchors)
    /\ a_lang' = 1
    /\ apc' = "languages"
    /\ UNCHANGED <<audio_anchors, feeds, mp3_exists, a_item, a_stories,
                   a_stories_by_language, audio_ret, notA>>

\* lines 243-250: the language page, the player page and the feed are
\* fetched; stories = [None] * len(items)
FetchFeed ==
    /\ apc = "languages"
    /\ a_lang <= Len(language_info)
    /\ a_stories' = <<>>
    /\ a_item' = 1
    /\ apc' = "items"
    /\ UNCHANGED <<audio_anchors, feeds, mp3_exists, language_info, a_lang,
                   a_stories_by_language, audio_ret, notA>>

\* lines 252-274: one feed item
ResolveNextItem ==
    /\ apc = "items"
    /\ a_item <= Len(feeds[language_info[a_lang][2]])
    /\ LET item == feeds[language_info[a_lang][2]][a_item]
           r == ResolveItem(item, language_info[a_lang][1], mp3_exists)
       IN  IF r.kind = "raise"
           THEN /\ apc' = "raised"
                /\ UNCHANGED <<a_stories, a_item>>
           ELSE /\ a_stories' = Append(a_stories, r)
                /\ a_item' = a_item + 1
                /\ apc' = apc
    /\ UNCHANGED <<audio_anchors, feeds, mp3_exists, language_info, a_lang,
                   a_stories_by_language, audio_ret, notA>>

\* line 275: stories_by_language[lang] = stories
StoreLanguage ==
    /\ apc = "items"
    /\ a_item > Len(feeds[language_info[a_lang][2]])
    /\ a_stories_by_language' =
           [l \in DOMAIN a_stories_by_language \cup {language_info[a_lang][1]} |->
               IF l = language_info[a_lang][1] THEN a_stories
               ELSE a_stories_by_language[l]]
    /\ a_lang' = a_lang + 1
    /\ apc' = "languages"
    /\ UNCHANGED <<audio_anchors, feeds, mp3_exists, language_info, a_item,
                   a_stories, audio_ret, notA>>

\* line 276: return stories_url, stories_by_language
ReturnAudio ==
    /\ apc = "languages"
    /\ a_lang > Len(language_info)
    /\ audio_ret' = [kind |-> "tuple", url |-> STORIES_URL,
                     stories_by_language |-> a_stories_by_language]
    /\ apc' = "returned"
    /\ UNCHANGED <<audio_anchors, feeds, mp3_exists, language_info, a_lang,
                   a_item, a_stories, a_stories_by_language, notA>>

ANext ==
    ScanAudioPage \/ FetchFeed \/ ResolveNextItem \/ StoreLanguage \/ ReturnAudio

SpecAudio == AInit /\ [][ANext]_vars

(***************************************************************************)
(* Claims about the audio feed resolver.                                   *)
(***************************************************************************)
EnclosureOf(url) == CHOOSE e \in Enclosures : e.url = url

\* the items of the feed of language_info[n]
ItemsOf(n) == feeds[language_info[n][2]]

\* C5: every episode's url is its enclosure URL with the query string
\* dropped and the extension replaced by .mp3, that URL answered the probe
\* with 200, and the source_id is the path of that URL; when a probe gives
\* another status the resolver raises and returns no list at all.
C5_Mp3OrFatal ==
    /\ \A l \in DOMAIN a_stories_by_language :
          \A i \in 1..Len(a_stories_by_language[l]) :
              LET ep == a_stories_by_language[l][i]
              IN  \E n \in 1..Len(language_info) :
                      /\ language_info[n][1] = l
                      /\ i <= Len(ItemsOf(n))
                      /\ LET e == EnclosureOf(ItemsOf(n)[i].enclosure_url)
                         IN  /\ ep.url = e.mp3
                             /\ ep.source_id = e.path
                             /\ e.mp3 \in mp3_exists
    /\ apc = "returned" =>
          /\ audio_ret.kind = "tuple"
          /\ \A n \in 1..Len(language_info) :
                /\ language_info[n][1] \in DOMAIN audio_ret.stories_by_language
                /\ \A i \in 1..Len(ItemsOf(n)) :
                      EnclosureOf(ItemsOf(n)[i].enclosure_url).mp3 \in mp3_exists
    /\ apc = "raised" =>
          /\ audio_ret = None
          /\ EnclosureOf(ItemsOf(a_lang)[a_item].enclosure_url).mp3 \notin mp3_exists

\* the probe fails in the second language's feed after the first
\* language's list was stored, with an episode resolved from a .wav
\* enclosure carrying a query string: nothing is returned
C5_Witness ==
    /\ apc = "raised"
    /\ audio_ret = None
    /\ a_lang = 2
    /\ \E l \in DOMAIN a_stories_by_language :
          /\ a_stories_by_language[l] # <<>>
          /\ a_stories_by_language[l][1].url # ItemsOf(1)[1].enclosure_url
          /\ Contains(ItemsOf(1)[1].enclosure_url, <<"?">>)

(***************************************************************************)
(* The run: pre_run, crawl and scrape.  The crawl of one hierarchy (the    *)
(* walker, the extractor and the merge, or the audio resolver, modelled    *)
(* above) is taken here by its outcome: the children it returns, or the    *)
(* exception it raises.                                                    *)
(***************************************************************************)
MultilingualStories ==
    <<"M", "u", "l", "t", "i", "l", "i", "n", "g", "u", "a", "l", " ", "s",
      "t", "o", "r", "i", "e", "s">>

AudioStories == <<"A", "u", "d", "i", "o", " ", "s", "t", "o", "r", "i", "e", "s">>

StoryCards == <<"S", "t", "o", "r", "y", " ", "c", "a", "r", "d", "s">>

StorySeeds == <<"S", "t", "o", "r", "y", " ", "s", "e", "e", "d", "s">>

YourStories == <<"Y", "o", "u", "r", " ", "s", "t", "o", "r", "i", "e", "s">>

\* AUDIO_STORIES_RE.search(title): 'Audio Stories' in any letter case
AUDIO_STORIES_RE_search(title) ==
    Contains(Lower(title), Lower(<<"A", "u", "d", "i", "o", " ", "S", "t", "o", "r", "i", "e", "s">>))

\* the row of a hierarchy on the root page
HierarchyRow(title, n) ==
    [h2 |-> Elem(title), img |-> <<"/", "t", Digits[n + 1], ".", "p", "n", "g">>,
     body |-> Elem(<<"b", Digits[n + 1]>>), href |-> <<"/", "l", Digits[n + 1]>>]

RowOfTitle(title) ==
    IF title = MultilingualStories THEN HierarchyRow(title, 1)
    ELSE IF title = AudioStories THEN HierarchyRow(title, 2)
    ELSE IF title = StoryCards THEN HierarchyRow(title, 3)
    ELSE IF title = StorySeeds THEN HierarchyRow(title, 4)
    ELSE HierarchyRow(title, 5)

\* __to_story_hierarchy
ToStoryHierarchy(row) ==
    [kind |-> "NalibaliHierarchy",
     title |-> GetText(row.h2),
     thumbnail |-> row.img,
     description |-> GetText(row.body),
     url |-> AbsoluteUrl(row.href)]

ThreeHierarchies == <<MultilingualStories, AudioStories, StoryCards>>

FiveHierarchies ==
    <<MultilingualStories, AudioStories, StoryCards, StorySeeds, YourStories>>

\* the root pages of the model
RootTitleLists ==
    {ThreeHierarchies,
     FiveHierarchies,
     <<StoryCards, AudioStories, MultilingualStories>>,
     <<YourStories, StorySeeds, StoryCards, AudioStories, MultilingualStories>>,
     <<MultilingualStories>>,
     <<>>}

SiteUrl == <<"h", "t", "t", "p", ":", "/", "/", "n">>

PageUrl == SiteUrl \o <<"/", "p">>

PdfUrl == SiteUrl \o <<"/", "c", ".", "p", "d", "f">>

\* a story of the snapshot: a LocalizedStory or an audio episode
RunStory(lang, url) ==
    [title |-> <<"T">> \o lang, language |-> lang, url |-> url, source_id |-> UrlPath(url)]

\* a stories_by_language dict: its items in insertion order
OneStoryEach(langs, url) ==
    [kind |-> "dict",
     items |-> [i \in 1..Len(langs) |->
                  [language |-> langs[i], stories |-> <<RunStory(langs[i], url)>>]]]

\* what the crawl of a hierarchy can return as its stories_by_language, in
\* the order of the dict: page stories carry a language the lookup knows
\* by name or by native name, audio episodes any language
StoryChildren ==
    {OneStoryEach(<<>>, PageUrl),
     OneStoryEach(<<English>>, PageUrl),
     OneStoryEach(<<IsiZulu, English>>, PageUrl),
     OneStoryEach(<<NorthNdebele>>, PageUrl)}

CardChildren ==
    {OneStoryEach(<<>>, PdfUrl),
     OneStoryEach(<<English>>, PdfUrl),
     OneStoryEach(<<English>>, PageUrl),
     OneStoryEach(<<NorthNdebele, IsiZulu>>, PdfUrl)}

AudioChildren ==
    {OneStoryEach(<<>>, PdfUrl),
     OneStoryEach(<<IsiZulu>>, PageUrl),
     OneStoryEach(<<Klingon, NorthNdebele>>, PageUrl)}

\* _crawl_story_hierarchy, by its outcomes
CrawlOutcomes(h) ==
    {Raise("Exception")} \cup
    {[kind |-> "tuple", url |-> h.url, stories_by_language |-> c] :
        c \in IF AUDIO_STORIES_RE_search(h.title) THEN AudioChildren
              ELSE IF h.title = StoryCards THEN CardChildren
              ELSE StoryChildren}

\* getlang_by_name and getlang_by_native_name: name -> language code
GETLANG_BY_NAME == (English :> "en") @@ (NorthNdebele :> "nd")

GETLANG_BY_NATIVE_NAME == (English :> "en") @@ (IsiZulu :> "zul") @@ (Sesotho :> "st")

\* __get_language_code
GetLanguageCode(language_str) ==
    IF language_str \in DOMAIN GETLANG_BY_NAME THEN GETLANG_BY_NAME[language_str]
    ELSE IF language_str \in DOMAIN GETLANG_BY_NATIVE_NAME
    THEN GETLANG_BY_NATIVE_NAME[language_str]
    ELSE GETLANG_BY_NAME[English]

\* _scrape_story_html5: language_code =
\* getlang_by_native_name(story['language']).code
ScrapeStoryHtml5(st) ==
    IF st.language \notin DOMAIN GETLANG_BY_NATIVE_NAME
    THEN Raise("AttributeError: 'NoneType' object has no attribute 'code'")
    ELSE [kind |-> "html5", source_id |-> UrlPath(st.url), title |-> st.title,
          language |-> GETLANG_BY_NATIVE_NAME[st.language]]

\* _scrape_audio_story
ScrapeAudioStory(st) ==
    [kind |-> "audio", source_id |-> st.source_id, title |-> st.title,
     language |-> GetLanguageCode(st.language)]

\* _scrape_story_card
ScrapeStoryCard(st) ==
    LET lang_code == GetLanguageCode(st.language)
    IN  IF st.url # <<>> /\ EndsWith(st.url, <<".", "p", "d", "f">>)
        THEN [kind |-> "document", source_id |-> UrlPath(st.url),
              title |-> st.title, language |-> lang_code]
        ELSE Raise("Non-PDF version not implemented")

\* the story_scraping_func scrape passes for each of its five hierarchies
ScrapeStory(func, st) ==
    IF func = "audio" THEN ScrapeAudioStory(st)
    ELSE IF func = "card" THEN ScrapeStoryCard(st)
    ELSE ScrapeStoryHtml5(st)

\* str.replace(' ', '_')
ReplaceSpaces(t) == [i \in 1..Len(t) |-> IF t[i] = " " THEN "_" ELSE t[i]]

\* the exceptions among the results of a list comprehension, in order
Raised(rs) == SelectSeq(rs, LAMBDA r : r.kind = "raise")

\* _scrape_hierarchy: the hierarchy's topic, or the exception raised
ScrapeHierarchy(hierarchy, func) ==
    IF hierarchy.kind = "None"
    THEN Raise("TypeError: 'NoneType' object is not subscriptable")
    ELSE IF hierarchy.children.kind = "None"
    THEN Raise("AttributeError: 'NoneType' object has no attribute 'items'")
    ELSE
    LET items == hierarchy.children.items
        hierarchy_name == ReplaceSpaces(hierarchy.title)
        nodes == [i \in 1..Len(items) |->
                    [j \in 1..Len(items[i].stories) |->
                        ScrapeStory(func, items[i].stories[j])]]
        failed == {i \in 1..Len(items) : Raised(nodes[i]) # <<>>}
    IN  IF failed # {}
        THEN Raised(nodes[CHOOSE i \in failed : \A j \in failed : i <= j])[1]
        ELSE [kind |-> "topic",
              source_id |-> hierarchy.title,
              title |-> hierarchy.title,
              description |-> hierarchy.description,
              children |->
                  [i \in 1..Len(items) |->
                      [kind |-> "topic",
                       source_id |-> hierarchy_name \o <<"_">> \o items[i].language,
                       title |-> items[i].language,
                       children |-> nodes[i]]],
              thumbnail |-> hierarchy.thumbnail]

\* lines 345-349: the title looked up and the function used for children[k]
ScrapeTitles == FiveHierarchies

ScrapeFuncs == <<"html5", "audio", "card", "html5", "html5">>

\* hierarchies_map = { h['title']: h for h in web_resource_tree['children'] }
HierarchiesMap(tree) ==
    LET hs == tree.children
    IN  [t \in {hs[i].title : i \in 1..Len(hs)} |->
            hs[CHOOSE i \in 1..Len(hs) :
                  hs[i].title = t /\ \A j \in (i + 1)..Len(hs) : hs[j].title # t]]

RInit ==
    /\ PIdle
    /\ MIdle
    /\ SIdle
    /\ AIdle
    /\ root_titles \in RootTitleLists
    /\ story_hierarchies = <<>>
    /\ stories_dict = <<>>
    /\ h_idx = 0
    /\ snapshot = None
    /\ snapshot_writes = 0
    /\ snapshot_reads = 0
    /\ web_resource_tree = None
    /\ children = <<>>
    /\ s_idx = 0
    /\ output = None
    /\ output_writes = 0
    /\ error = None
    /\ stage = "crawl"
    /\ rpc = "crawl_root"

\* pre_run calls crawl: lines 310 and 126-129
GetRootPage ==
    /\ rpc = "crawl_root"
    /\ story_hierarchies' =
           [i \in 1..Len(root_titles) |-> ToStoryHierarchy(RowOfTitle(root_titles[i]))]
    /\ h_idx' = 1
    /\ rpc' = "crawl_hierarchies"
    /\ UNCHANGED <<root_titles, stories_dict, snapshot, snapshot_writes,
                   snapshot_reads, web_resource_tree, children, s_idx, output,
                   output_writes, error, stage, notR>>

\* a variant of line 130 in which an exception of one hierarchy is swallowed
\* and the map goes on to the next hierarchy; the code does not do this
CrawlHierarchySwallow ==
    /\ rpc = "crawl_hierarchies"
    /\ h_idx <= Len(story_hierarchies)
    /\ \E out \in CrawlOutcomes(story_hierarchies[h_idx]) :
          /\ stories_dict' =
                 IF out.kind = "raise" THEN stories_dict
                 ELSE [u \in DOMAIN stories_dict \cup {out.url} |->
                          IF u = out.url THEN out.stories_by_language
                          ELSE stories_dict[u]]
          /\ h_idx' = h_idx + 1
          /\ UNCHANGED <<error, rpc>>
    /\ UNCHANGED <<root_titles, story_hierarchies, snapshot, snapshot_writes,
                   snapshot_reads, web_resource_tree, children, s_idx, output,
                   output_writes, stage, notR>>

\* line 130, one hierarchy of dict(map(self._crawl_story_hierarchy, ...)):
\* an exception leaves crawl and pre_run
CrawlHierarchy ==
    /\ rpc = "crawl_hierarchies"
    /\ h_idx <= Len(story_hierarchies)
    /\ \E out \in CrawlOutcomes(story_hierarchies[h_idx]) :
          IF out.kind = "raise"
          THEN /\ error' = out
               /\ rpc' = "aborted"
               /\ UNCHANGED <<stories_dict, h_idx>>
          ELSE /\ stories_dict' =
                      [u \in DOMAIN stories_dict \cup {out.url} |->
                          IF u = out.url THEN out.stories_by_language
                          ELSE stories_dict[u]]
               /\ h_idx' = h_idx + 1
               /\ UNCHANGED <<error, rpc>>
    /\ UNCHANGED <<root_titles, story_hierarchies, snapshot, snapshot_writes,
                   snapshot_reads, web_resource_tree, children, s_idx, output,
                   output_writes, stage, notR>>

\* lines 131-134 and 312-322: every hierarchy gets its children, the tree
\* is dumped to the snapshot file, crawl returns and pre_run calls scrape
WriteSnapshot ==
    /\ rpc = "crawl_hierarchies"
    /\ h_idx > Len(story_hierarchies)
    /\ LET with_children ==
               [i \in 1..Len(story_hierarchies) |->
                   LET h == story_hierarchies[i]
                   IN  [kind |-> h.kind, title |-> h.title,
                        thumbnail |-> h.thumbnail, description |-> h.description,
                        url |-> h.url,
                        children |-> DictGet(stories_dict, h.url)]]
       IN  /\ story_hierarchies' = with_children
           /\ snapshot' = [kind |-> "NalibaliWebResourceTree",
                           language |-> "en",
                           children |-> with_children]
    /\ snapshot_writes' = snapshot_writes + 1
    /\ stage' = "scrape"
    /\ rpc' = "scrape_read"
    /\ UNCHANGED <<root_titles, stories_dict, h_idx, snapshot_reads,
                   web_resource_tree, children, s_idx, output, output_writes,
                   error, notR>>

\* lines 326-344: the snapshot is read, children = [None] * len(hierarchies_map)
ReadSnapshot ==
    /\ rpc = "scrape_read"
    /\ snapshot_reads' = snapshot_reads + 1
    /\ IF snapshot.kind = "None"
       THEN /\ error' = Raise("FileNotFoundError")
            /\ rpc' = "aborted"
            /\ UNCHANGED <<web_resource_tree, children, s_idx>>
       ELSE /\ web_resource_tree' = snapshot
            /\ children' = [i \in 1..Cardinality(DOMAIN HierarchiesMap(snapshot)) |-> None]
            /\ s_idx' = 1
            /\ rpc' = "scrape_hierarchies"
            /\ error' = error
    /\ UNCHANGED <<root_titles, story_hierarchies, stories_dict, h_idx, snapshot,
                   snapshot_writes, output, output_writes, stage, notR>>

\* one of lines 345-349: children[k] = self._scrape_hierarchy(
\* hierarchies_map.get(title), func)
ScrapeNext ==
    /\ rpc = "scrape_hierarchies"
    /\ s_idx <= Len(ScrapeTitles)
    /\ LET topic == ScrapeHierarchy(
                        DictGet(HierarchiesMap(web_resource_tree), ScrapeTitles[s_idx]),
                        ScrapeFuncs[s_idx])
       IN  IF topic.kind = "raise"
           THEN /\ error' = topic
                /\ rpc' = "aborted"
                /\ UNCHANGED <<children, s_idx>>
           ELSE IF s_idx > Len(children)
           THEN /\ error' = Raise("IndexError")
                /\ rpc' = "aborted"
                /\ UNCHANGED <<children, s_idx>>
           ELSE /\ children' = [children EXCEPT ![s_idx] = topic]
                /\ s_idx' = s_idx + 1
                /\ UNCHANGED <<error, rpc>>
    /\ UNCHANGED <<root_titles, story_hierarchies, stories_dict, h_idx, snapshot,
                   snapshot_writes, snapshot_reads, web_resource_tree, output,
                   output_writes, stage, notR>>

\* lines 350-352: the tree is written and returned
WriteOutput ==
    /\ rpc = "scrape_hierarchies"
    /\ s_idx > Len(ScrapeTitles)
    /\ output' = [source_id |-> "nal'ibali", language |-> "en", children |-> children]
    /\ output_writes' = output_writes + 1
    /\ stage' = "done"
    /\ rpc' = "done"
    /\ UNCHANGED <<root_titles, story_hierarchies, stories_dict, h_idx, snapshot,
                   snapshot_writes, snapshot_reads, web_resource_tree, children,
                   s_idx, error, notR>>

RNext ==
    \/ GetRootPage
    \/ CrawlHierarchy
    \/ WriteSnapshot
    \/ ReadSnapshot
    \/ ScrapeNext
    \/ WriteOutput

SpecRun == RInit /\ [][RNext]_vars

(***************************************************************************)
(* Claims about the run                                                    *)
(***************************************************************************)
Crawled == snapshot.kind # "None"

ScrapeAborted == stage = "scrape" /\ rpc = "aborted"

TitlesOf(hs) == [i \in 1..Len(hs) |-> hs[i].title]

\* every page story carries a language known by native name and every
\* story card is a PDF
PlainStories(tree) ==
    \A i \in 1..Len(tree.children) :
       LET h == tree.children[i]
       IN  \A l \in 1..Len(h.children.items) :
              \A j \in 1..Len(h.children.items[l].stories) :
                 LET st == h.children.items[l].stories[j]
                 IN  /\ ~AUDIO_STORIES_RE_search(h.title) /\ h.title # StoryCards
                        => st.language \in DOMAIN GETLANG_BY_NATIVE_NAME
                     /\ h.title = StoryCards => EndsWith(st.url, <<".", "p", "d", "f">>)

\* C4: for a root page listing exactly 'Multilingual stories', 'Audio
\* stories' and 'Story cards', crawl produces a tree with exactly these
\* three hierarchies in that order, and scrape on that snapshot completes
\* and returns one Topic per hierarchy of the snapshot, each holding one
\* child Topic per language of that hierarchy.
C4_ThreeHierarchiesEndToEnd ==
    (root_titles = ThreeHierarchies /\ Crawled /\ PlainStories(snapshot))
    => /\ TitlesOf(snapshot.children) = ThreeHierarchies
       /\ ~ScrapeAborted
       /\ rpc = "done"
          => /\ Len(output.children) = Len(snapshot.children)
             /\ \A i \in 1..Len(snapshot.children) :
                   /\ output.children[i].title = snapshot.children[i].title
                   /\ Len(output.children[i].children)
                          = Len(snapshot.children[i].children.items)

\* the scraped topic of the k-th assignment of scrape and its hierarchy
ScrapedHierarchy(k) == HierarchiesMap(web_resource_tree)[ScrapeTitles[k]]

\* C7: in every story transform (HTML bundle, audio, document) a story
\* whose language name resolves by display name or by native name gets that
\* language's code, one that resolves by neither gets English's code, and
\* no language name aborts the run.
C7_LanguageCodeInEveryTransform ==
    /\ rpc \in {"scrape_hierarchies", "done"}
       => \A k \in 1..(s_idx - 1) :
             \A l \in 1..Len(children[k].children) :
                \A j \in 1..Len(children[k].children[l].children) :
                   children[k].children[l].children[j].language
                       = GetLanguageCode(
                             ScrapedHierarchy(k).children.items[l].stories[j].language)
    /\ ScrapeAborted
       => error # Raise("AttributeError: 'NoneType' object has no attribute 'code'")

\* C8: the stages of pre_run are ordered crawl then scrape: the snapshot is
\* written at most once and only after every hierarchy has been crawled
\* completely; scrape reads it exactly once and only after that write; a
\* crawl that aborts writes no snapshot and starts no scrape; a scrape that
\* aborts writes no output tree.
C8_CrawlThenScrape ==
    /\ snapshot_writes <= 1
    /\ (snapshot_writes = 1) = Crawled
    /\ Crawled
       => /\ Len(snapshot.children) = Len(root_titles)
          /\ \A i \in 1..Len(snapshot.children) :
                /\ snapshot.children[i].url \in DOMAIN stories_dict
                /\ snapshot.children[i].children = stories_dict[snapshot.children[i].url]
    /\ snapshot_reads <= 1
    /\ snapshot_reads = 1 => snapshot_writes = 1
    /\ (stage = "crawl") = (snapshot_writes = 0)
    /\ rpc \in {"scrape_hierarchies", "done"} \/ ScrapeAborted => snapshot_reads = 1
    /\ stage = "crawl"
       => /\ snapshot_reads = 0
          /\ web_resource_tree = None
          /\ s_idx = 0
          /\ output_writes = 0
    /\ ScrapeAborted => output_writes = 0 /\ output = None
    /\ (output_writes = 1) = (rpc = "done")
    /\ output_writes <= 1

\* a run that crawled every hierarchy, wrote and read the snapshot, built a
\* topic and then aborted in scrape
C8_Witness ==
    /\ ScrapeAborted
    /\ s_idx >= 2
    /\ snapshot_writes = 1
    /\ Len(snapshot.children) >= 3

====
